---- MODULE Spec2Model ----
(***************************************************************************)
(* The asynchronous analysis pipeline of the deepfake detector:            *)
(*   server/storage.ts  MemStorage (jobs, model registry, results)         *)
(*   server/routes.ts   processMedia, POST /api/upload,                    *)
(*                      POST /api/analyze-url, GET /api/analysis/:id       *)
(* Every await of the source is a point where another request or another   *)
(* job's continuation may run, so each action below is the code between    *)
(* two awaits of one handler.                                              *)
(***************************************************************************)
EXTENDS Integers, Sequences, FiniteSets, TLC

\* ------------------------------------------------------------------ bounds
\* Number of jobs (uploads and URL requests together) a run creates.
MaxJobs == 2
\* Number of models added to the registry after the four seeded ones.
MaxExtraModels == 1
\* Number of milliseconds the clock advances during a run.
MaxTime == 1
\* Number of results stored by direct calls of the store.
MaxStoreResults == 3
\* Number of callers that call updateMediaStatus directly, one call each.
MaxCallers == 2

JobIds == 1..MaxJobs
Callers == 1..MaxCallers
\* Ids a client may ask about: every job id and one id that is never created.
RequestIds == 1..(MaxJobs + 1)

Undefined == [undefined |-> TRUE]

\* ------------------------------------------------------------------ state
VARIABLES
  mediaUploads,      \* MemStorage.mediaUploads: id -> job
  currentMediaId,    \* MemStorage.currentMediaId
  detectionModels,   \* MemStorage.detectionModels, in insertion (= id) order
  analysisResults,   \* MemStorage.analysisResults, in insertion (= id) order
  pc,                \* per job: where its request handler / processMedia is
  selectedModels,    \* per job: processMedia's argument selectedModels
  updRead,           \* per job: updateMediaStatus's local mediaUpload (line 130)
  isVideo,           \* per job: processMedia's local isVideo
  modelsToUse,       \* per job: processMedia's local modelsToUse
  loopIndex,         \* per job: position of the for loop in modelsToUse
  httpStatus,        \* per job: status code the intake route answered (0: none yet)
  statusHistory,     \* per job: every status value written to the job, in order
  now,               \* the clock new Date() reads, in milliseconds
  updCalls,          \* per caller: its updateMediaStatus call made directly
  reqBody            \* per job: req.body.selectedModels of its intake request

vars == <<mediaUploads, currentMediaId, detectionModels, analysisResults, pc,
          selectedModels, updRead, isVideo, modelsToUse,
          loopIndex, httpStatus, statusHistory, now, updCalls, reqBody>>

storeVars == <<mediaUploads, currentMediaId, detectionModels, analysisResults>>
localVars == <<selectedModels, updRead, isVideo, modelsToUse, loopIndex>>

\* ------------------------------------------------------------------ registry
\* initDefaultModels: the seed data, ids 1..4 in this order.
defaultModels ==
  << [id |-> 1, name |-> "FaceForensics++", type |-> "both", isActive |-> TRUE],
     [id |-> 2, name |-> "DeepFake Detection Challenge", type |-> "video", isActive |-> TRUE],
     [id |-> 3, name |-> "CNN-LSTM", type |-> "video", isActive |-> TRUE],
     [id |-> 4, name |-> "EfficientNet-B4", type |-> "image", isActive |-> TRUE] >>

\* MemStorage.currentModelId: ids are handed out 1, 2, 3, ... and never freed.
currentModelId == Len(detectionModels) + 1
\* MemStorage.currentAnalysisId
currentAnalysisId == Len(analysisResults) + 1

\* name.includes(sub) for the names and substrings the program uses.
nameIncludes(name, sub) ==
  <<name, sub>> \in { <<"FaceForensics++", "FaceForensics">>,
                      <<"CNN-LSTM", "CNN-LSTM">>,
                      <<"EfficientNet-B4", "EfficientNet">> }

\* filetype.startsWith("video/") for the MIME types the intake routes admit.
startsWithVideo(filetype) == filetype \in {"video/mp4", "video/quicktime"}

\* Inputs: MIME types of the created jobs, and the models added to the
\* registry after the seed data. The seeded models are all active and cover
\* the three types; an added model is the deactivated one.
FileTypes == {"image/jpeg", "video/mp4"}
ExtraModels ==
  [name : {"Custom"}, type : {"both"}, isActive : {FALSE}]
\* Math.floor(Math.random() * (95 - 60) + 60) ranges over 60..94; its two ends.
RandomScores == {60, 94}
\* Id lists a client may send; 99 names no model, 5 is the first added model,
\* 3 is a video-only model.
ExplicitIdSets == { {}, {99}, {1, 5}, {3} }

\* ------------------------------------------------------------------ storage.ts
getMediaUpload(id) ==
  IF id \in DOMAIN mediaUploads THEN mediaUploads[id] ELSE Undefined

getDetectionModels == detectionModels

getDetectionModel(id) ==
  IF id \in DOMAIN detectionModels THEN detectionModels[id] ELSE Undefined

getAnalysisResultsByMediaId(mediaId) ==
  LET ofMedia(r) == r.mediaId = mediaId IN SelectSeq(analysisResults, ofMedia)

\* updateMediaStatusWrite that stores a job under id when none was read.
updateMediaStatusUpsert(read, id, status) ==
  [k \in DOMAIN mediaUploads \cup {id} |->
     IF k = id
       THEN IF read = Undefined
              THEN [id |-> id, filetype |-> "image/jpeg", status |-> status]
              ELSE [read EXCEPT !.status = status]
       ELSE mediaUploads[k]]

\* updateMediaStatus after its await: the write of { ...mediaUpload, status },
\* built from the job as it was read before the await.
updateMediaStatusWrite(read, id, status) ==
  IF read = Undefined THEN mediaUploads
  ELSE [k \in DOMAIN mediaUploads \cup {id} |->
          IF k = id THEN [read EXCEPT !.status = status] ELSE mediaUploads[k]]

\* The status values written to job id so far, with this write appended.
logStatus(read, id, status) ==
  IF read = Undefined THEN statusHistory
  ELSE [statusHistory EXCEPT ![id] = Append(@, status)]

\* createMediaUpload that stores the job as already processing.
createMediaUploadProcessing(filetype) ==
  [k \in DOMAIN mediaUploads \cup {currentMediaId} |->
     IF k = currentMediaId
       THEN [id |-> currentMediaId, filetype |-> filetype, status |-> "processing"]
       ELSE mediaUploads[k]]

createMediaUpload(filetype) ==
  [k \in DOMAIN mediaUploads \cup {currentMediaId} |->
     IF k = currentMediaId
       THEN [id |-> currentMediaId, filetype |-> filetype, status |-> "pending"]
       ELSE mediaUploads[k]]

\* createAnalysisResult as a store that fails to advance currentAnalysisId: the
\* new result takes the key of the last one.
createAnalysisResultSameKey(result) ==
  LET stored == [id |-> Len(analysisResults), mediaId |-> result.mediaId,
                 modelId |-> result.modelId,
                 confidenceScore |-> result.confidenceScore,
                 resultDetails |-> result.resultDetails, analyzedAt |-> now]
  IN IF analysisResults = <<>>
       THEN <<[stored EXCEPT !.id = 1]>>
       ELSE [analysisResults EXCEPT ![Len(analysisResults)] = stored]

\* createAnalysisResult({ mediaId, modelId, confidenceScore, resultDetails }):
\* the result gets the next id and analyzedAt = new Date().
createAnalysisResult(result) ==
  Append(analysisResults,
         [id |-> currentAnalysisId, mediaId |-> result.mediaId,
          modelId |-> result.modelId,
          confidenceScore |-> result.confidenceScore,
          resultDetails |-> result.resultDetails, analyzedAt |-> now])

RECURSIVE sumScores(_)
sumScores(rs) ==
  IF rs = <<>> THEN 0 ELSE Head(rs).confidenceScore + sumScores(Tail(rs))

\* Math.floor(x / n) instead of Math.round.
mathFloor(x, n) == x \div n

\* Math.round(x / n) for x >= 0, n > 0: the quotient's integer part, plus one
\* when its fractional part (x % n) / n is at least one half.
mathRound(x, n) == (x \div n) + (IF 2 * (x % n) >= n THEN 1 ELSE 0)

modelName(modelId) ==
  IF getDetectionModel(modelId) = Undefined THEN "Unknown Model"
  ELSE getDetectionModel(modelId).name

\* results.flatMap(result => result.resultDetails.manipulationTypes || []).
\* The elements are the stored objects themselves; ref names the object: the
\* i-th element of the array of the result with that id.
RECURSIVE flatMapManipulationTypes(_)
flatMapManipulationTypes(rs) ==
  IF rs = <<>> THEN <<>>
  ELSE LET r == Head(rs)
           own == [i \in DOMAIN r.resultDetails.manipulationTypes |->
                     [ref |-> <<r.id, i>>,
                      type |-> r.resultDetails.manipulationTypes[i].type,
                      confidence |-> r.resultDetails.manipulationTypes[i].confidence]]
       IN own \o flatMapManipulationTypes(Tail(rs))

\* Array.from(new Set(objs)): a Set of objects holds each object (reference)
\* once, in insertion order.
RECURSIVE uniqueObjects(_)
uniqueObjects(objs) ==
  IF objs = <<>> THEN <<>>
  ELSE LET front == uniqueObjects(SubSeq(objs, 1, Len(objs) - 1))
           last == objs[Len(objs)]
       IN IF \E i \in DOMAIN front : front[i].ref = last.ref
            THEN front ELSE Append(front, last)

\* x put into a sequence sorted by confidence descending, behind the elements
\* that compare equal to it (Array.prototype.sort is stable).
RECURSIVE insertDescending(_, _)
insertDescending(sorted, x) ==
  IF sorted = <<>> THEN <<x>>
  ELSE IF x.confidence > Head(sorted).confidence THEN <<x>> \o sorted
  ELSE <<Head(sorted)>> \o insertDescending(Tail(sorted), x)

\* objs.sort((a, b) => b.confidence - a.confidence)
RECURSIVE sortByConfidence(_)
sortByConfidence(objs) ==
  IF objs = <<>> THEN <<>>
  ELSE insertDescending(sortByConfidence(SubSeq(objs, 1, Len(objs) - 1)),
                        objs[Len(objs)])

\* The report's manipulationTypes as the response carries them.
manipulationTypesOf(results) ==
  LET objs == sortByConfidence(uniqueObjects(flatMapManipulationTypes(results)))
  IN [i \in DOMAIN objs |-> [type |-> objs[i].type, confidence |-> objs[i].confidence]]

defaultTechnicalAnalysis ==
  [compressionLevel |-> "Medium", compressionSuspicious |-> FALSE,
   encodingFormat |-> "Unknown", noisePattern |-> "Regular",
   noisePatternSuspicious |-> FALSE, metadataConsistency |-> "Consistent",
   metadataModified |-> FALSE]

\* isDeepfake with the threshold value itself counted as a deepfake.
isDeepfakeFrom60(overallConfidence) == overallConfidence >= 60

\* isDeepfake: overallConfidence > 60
isDeepfake(overallConfidence) == overallConfidence > 60

\* The report of a job and its non-empty list of results, with the fields
\* that come from one result taken from `chosen`.
analysisResponse(mediaUpload, results, chosen) ==
  LET overallConfidence == mathRound(sumScores(results), Len(results))
  IN [mediaId |-> mediaUpload.id,
      filetype |-> mediaUpload.filetype,
      status |-> mediaUpload.status,
      overallConfidence |-> overallConfidence,
      isDeepfake |-> isDeepfake(overallConfidence),
      detectionTime |-> chosen.analyzedAt,
      manipulationTypes |-> manipulationTypesOf(results),
      modelResults |->
        [i \in 1..Len(results) |->
           [modelId |-> results[i].modelId,
            modelName |-> modelName(results[i].modelId),
            confidenceScore |-> results[i].confidenceScore,
            anomalies |-> results[i].resultDetails.anomalies]],
      metadata |->
        [duration |-> chosen.resultDetails.metadata.duration,
         resolution |-> chosen.resultDetails.metadata.resolution,
         technicalAnalysis |->
           IF chosen.resultDetails.technicalAnalysis = Undefined
             THEN defaultTechnicalAnalysis
             ELSE chosen.resultDetails.technicalAnalysis]]

\* getCompleteAnalysis without the early return on an empty result list.
getCompleteAnalysisOfEmpty(mediaId) ==
  IF getMediaUpload(mediaId) = Undefined THEN Undefined
  ELSE LET mediaUpload == getMediaUpload(mediaId)
           results == getAnalysisResultsByMediaId(mediaId)
       IN IF Len(results) = 0
            THEN [mediaId |-> mediaId, filetype |-> mediaUpload.filetype,
                  status |-> mediaUpload.status, modelResults |-> <<>>]
            ELSE analysisResponse(mediaUpload, results, results[1])

\* getCompleteAnalysis that reports completed jobs only.
getCompleteAnalysisCompletedOnly(mediaId) ==
  IF getMediaUpload(mediaId) = Undefined THEN Undefined
  ELSE LET mediaUpload == getMediaUpload(mediaId)
           results == getAnalysisResultsByMediaId(mediaId)
       IN IF Len(results) = 0 \/ mediaUpload.status # "completed" THEN Undefined
          ELSE analysisResponse(mediaUpload, results, results[1])

\* getCompleteAnalysis that takes the one-result fields from the last result.
getCompleteAnalysisFromLast(mediaId) ==
  IF getMediaUpload(mediaId) = Undefined THEN Undefined
  ELSE LET mediaUpload == getMediaUpload(mediaId)
           results == getAnalysisResultsByMediaId(mediaId)
       IN IF Len(results) = 0 THEN Undefined
          ELSE analysisResponse(mediaUpload, results, results[Len(results)])

getCompleteAnalysis(mediaId) ==
  IF getMediaUpload(mediaId) = Undefined THEN Undefined
  ELSE LET mediaUpload == getMediaUpload(mediaId)
           results == getAnalysisResultsByMediaId(mediaId)
       IN IF Len(results) = 0 THEN Undefined
          ELSE analysisResponse(mediaUpload, results, results[1])

\* ------------------------------------------------------------------ routes.ts
\* compatible that admits every type.
compatibleWithAny(model, video) == model.type \in {"both", "video", "image"}

\* model.type === "both" || (isVideo ? model.type === "video" : model.type === "image")
compatible(model, video) ==
  model.type = "both" \/ (IF video THEN model.type = "video" ELSE model.type = "image")

\* selectModels with the isActive test in both branches.
selectModelsActiveOnly(available, selected, video) ==
  LET explicit(model) ==
        model.id \in selected /\ model.isActive /\ compatible(model, video)
      default(model) == model.isActive /\ compatible(model, video)
  IN IF selected # {} THEN SelectSeq(available, explicit)
     ELSE SelectSeq(available, default)

\* selectModels with the isActive test in neither branch.
selectModelsAnyActivity(available, selected, video) ==
  LET explicit(model) == model.id \in selected /\ compatible(model, video)
      default(model) == compatible(model, video)
  IN IF selected # {} THEN SelectSeq(available, explicit)
     ELSE SelectSeq(available, default)

\* processMedia's modelsToUse: the explicit branch when selectedModels.length > 0,
\* else the default branch.
selectModels(available, selected, video) ==
  LET explicit(model) == model.id \in selected /\ compatible(model, video)
      default(model) == model.isActive /\ compatible(model, video)
  IN IF selected # {} THEN SelectSeq(available, explicit)
     ELSE SelectSeq(available, default)

\* confidenceScoreOf with the random score scaled over 0..95 before 60 is added.
confidenceScoreShifted(model, random) ==
  IF nameIncludes(model.name, "CNN-LSTM") THEN 86
  ELSE IF nameIncludes(model.name, "FaceForensics") THEN 92
  ELSE random + 60

\* let confidenceScore = random; FaceForensics -> 92; CNN-LSTM -> 86.
confidenceScoreOf(model, random) ==
  IF nameIncludes(model.name, "CNN-LSTM") THEN 86
  ELSE IF nameIncludes(model.name, "FaceForensics") THEN 92
  ELSE random

\* The anomalies of a model, by the name tests of lines 93-150 (their types).
anomaliesOf(model) ==
  IF nameIncludes(model.name, "FaceForensics") THEN <<"visual", "visual", "lighting">>
  ELSE IF nameIncludes(model.name, "CNN-LSTM") THEN <<"temporal", "motion", "sync">>
  ELSE IF nameIncludes(model.name, "EfficientNet") THEN <<"pattern", "artifacts">>
  ELSE <<"general">>

\* duration: isVideo ? "00:42" : undefined
NoDuration == "undefined"

\* const resultDetails = { anomalies, manipulationTypes, detailsData, metadata,
\* technicalAnalysis } (detailsData is carried through unread and left out).
resultDetailsOf(model, video) ==
  [anomalies |-> anomaliesOf(model),
   manipulationTypes |->
     << [type |-> "Face Swap", confidence |-> 95],
        [type |-> "Expression Manipulation", confidence |-> 82],
        [type |-> "Voice Synthesis", confidence |-> 56] >>,
   metadata |-> [duration |-> IF video THEN "00:42" ELSE NoDuration,
                 resolution |-> "1920x1080"],
   technicalAnalysis |->
     [compressionLevel |-> "High", compressionSuspicious |-> TRUE,
      encodingFormat |-> IF video THEN "H.264" ELSE "JPEG",
      noisePattern |-> "Irregular", noisePatternSuspicious |-> TRUE,
      metadataConsistency |-> "Modified", metadataModified |-> TRUE]]

\* The argument of processMedia's createAnalysisResult call.
analysisResultOf(mediaId, model, video, random) ==
  [mediaId |-> mediaId, modelId |-> model.id,
   confidenceScore |-> confidenceScoreOf(model, random),
   resultDetails |-> resultDetailsOf(model, video)]

\* What a client puts in selectedModels: nothing, an array of ids, or something
\* that is no array of ids.
Payloads ==
  [kind : {"absent", "malformed"}, ids : {{}}]
  \cup [kind : {"array"}, ids : ExplicitIdSets]

\* POST /api/upload, "Extract selected models": the ids of every registry model
\* when the field is absent, the parsed ids, or [1, 2] when parsing throws.
uploadSelectedModels(payload) ==
  IF payload.kind = "absent"
    THEN {getDetectionModels[i].id : i \in DOMAIN getDetectionModels}
  ELSE IF payload.kind = "array" THEN payload.ids
  ELSE {1, 2}

\* POST /api/analyze-url, "Parse selected models": the mapped ids, or [] when
\* the field is absent (a non-array value makes selectedModels.map throw).
urlSelectedModels(payload) ==
  IF payload.kind = "array" THEN payload.ids ELSE {}

\* ------------------------------------------------------------------ Init
Init ==
  /\ mediaUploads = <<>>
  /\ currentMediaId = 1
  /\ detectionModels = defaultModels
  /\ analysisResults = <<>>
  /\ pc = [j \in JobIds |-> "none"]
  /\ selectedModels = [j \in JobIds |-> {}]
  /\ updRead = [j \in JobIds |-> Undefined]
  /\ isVideo = [j \in JobIds |-> FALSE]
  /\ modelsToUse = [j \in JobIds |-> <<>>]
  /\ loopIndex = [j \in JobIds |-> 0]
  /\ httpStatus = [j \in JobIds |-> 0]
  /\ statusHistory = [j \in JobIds |-> <<>>]
  /\ now = 0
  /\ updCalls = [c \in Callers |-> [at |-> "idle"]]
  /\ reqBody = [j \in JobIds |-> Undefined]

\* ------------------------------------------------------------------ registry
\* MemStorage.createDetectionModel: the store's operation that adds a model.
CreateDetectionModel(model) ==
  /\ currentModelId <= Len(defaultModels) + MaxExtraModels
  /\ detectionModels' =
       Append(detectionModels,
              [id |-> currentModelId, name |-> model.name, type |-> model.type,
               isActive |-> model.isActive])
  /\ UNCHANGED <<mediaUploads, currentMediaId, analysisResults, pc, localVars,
                 httpStatus, statusHistory, now, updCalls, reqBody>>

\* ------------------------------------------------------------------ intake
\* CreateJob as a store that hands out currentMediaId without advancing it.
CreateJobSameId(route, filetype) ==
  /\ currentMediaId <= MaxJobs
  /\ mediaUploads' = createMediaUpload(filetype)
  /\ pc' = [pc EXCEPT ![currentMediaId] = route]
  /\ statusHistory' = [statusHistory EXCEPT ![currentMediaId] = <<"pending">>]
  /\ UNCHANGED <<currentMediaId, detectionModels, analysisResults, localVars,
                 httpStatus, now, updCalls, reqBody>>

\* Either intake route up to and including `await storage.createMediaUpload`.
CreateJob(route, filetype) ==
  /\ currentMediaId <= MaxJobs
  /\ mediaUploads' = createMediaUpload(filetype)
  /\ currentMediaId' = currentMediaId + 1
  /\ pc' = [pc EXCEPT ![currentMediaId] = route]
  /\ statusHistory' = [statusHistory EXCEPT ![currentMediaId] = <<"pending">>]
  /\ UNCHANGED <<detectionModels, analysisResults, localVars, httpStatus, now, updCalls, reqBody>>

\* processMedia(id, models) up to its first await: updateMediaStatus is entered
\* and reads the job (line 130); and the route answers 201.
dispatch(j, models) ==
  /\ selectedModels' = [selectedModels EXCEPT ![j] = models]
  /\ updRead' = [updRead EXCEPT ![j] = getMediaUpload(j)]
  /\ pc' = [pc EXCEPT ![j] = "upd_processing"]
  /\ httpStatus' = [httpStatus EXCEPT ![j] = 201]
  /\ UNCHANGED <<storeVars, isVideo, modelsToUse, loopIndex,
                 statusHistory, now, updCalls>>

\* POST /api/upload after createMediaUpload: parse selectedModels, dispatch.
UploadDispatch(j, payload) ==
  /\ pc[j] = "upload"
  /\ reqBody' = [reqBody EXCEPT ![j] = payload]
  /\ dispatch(j, uploadSelectedModels(payload))

\* POST /api/analyze-url after createMediaUpload: map selectedModels, dispatch.
UrlDispatch(j, payload) ==
  /\ pc[j] = "url"
  /\ payload.kind # "malformed"
  /\ reqBody' = [reqBody EXCEPT ![j] = payload]
  /\ dispatch(j, urlSelectedModels(payload))

\* POST /api/analyze-url when selectedModels is no array: selectedModels.map
\* throws, the route's catch answers 500 and processMedia is never called.
UrlReject(j) ==
  /\ pc[j] = "url"
  /\ pc' = [pc EXCEPT ![j] = "not_dispatched"]
  /\ httpStatus' = [httpStatus EXCEPT ![j] = 500]
  /\ reqBody' = [reqBody EXCEPT ![j] = [kind |-> "malformed", ids |-> {}]]
  /\ UNCHANGED <<storeVars, localVars, statusHistory, now, updCalls>>

\* ------------------------------------------------------------------ processMedia
\* SetProcessing as a call that returns without writing the status.
SetProcessingNoWrite(j) ==
  /\ pc[j] = "upd_processing"
  /\ pc' = [pc EXCEPT ![j] = "get_media"]
  /\ UNCHANGED <<storeVars, localVars, httpStatus, statusHistory, now, updCalls, reqBody>>

\* Line 58 after the await inside updateMediaStatus: the write of "processing".
SetProcessing(j) ==
  /\ pc[j] = "upd_processing"
  /\ mediaUploads' = updateMediaStatusWrite(updRead[j], j, "processing")
  /\ statusHistory' = logStatus(updRead[j], j, "processing")
  /\ pc' = [pc EXCEPT ![j] = "get_media"]
  /\ UNCHANGED <<currentMediaId, detectionModels, analysisResults, localVars,
                 httpStatus, now, updCalls, reqBody>>

\* Lines 60-70: read the job, return if it is gone, else start the timer.
GetMedia(j) ==
  /\ pc[j] = "get_media"
  /\ IF getMediaUpload(j) = Undefined
       THEN /\ pc' = [pc EXCEPT ![j] = "returned"]
            /\ UNCHANGED isVideo
       ELSE /\ pc' = [pc EXCEPT ![j] = "timer"]
            /\ isVideo' = [isVideo EXCEPT ![j] = startsWithVideo(getMediaUpload(j).filetype)]
  /\ UNCHANGED <<storeVars, selectedModels, updRead, modelsToUse,
                 loopIndex, httpStatus, statusHistory, now, updCalls, reqBody>>

\* Lines 70-82: the timer fires; read the registry and choose the models.
TimerFires(j) ==
  /\ pc[j] = "timer"
  /\ modelsToUse' = [modelsToUse EXCEPT ![j] =
                       selectModels(getDetectionModels, selectedModels[j], isVideo[j])]
  /\ loopIndex' = [loopIndex EXCEPT ![j] = 1]
  /\ pc' = [pc EXCEPT ![j] = "loop"]
  /\ UNCHANGED <<storeVars, selectedModels, updRead, isVideo, httpStatus,
                 statusHistory, now, updCalls, reqBody>>

\* AnalyzeModel as an iteration that other models' failures do not stop (the
\* models run side by side and each stores its result when it is done).
AnalyzeModelDespiteError(j, random) ==
  /\ pc[j] \in {"loop", "rejected", "upd_failed", "handled"}
  /\ loopIndex[j] <= Len(modelsToUse[j])
  /\ LET model == modelsToUse[j][loopIndex[j]]
     IN analysisResults' =
          createAnalysisResult(analysisResultOf(j, model, isVideo[j], random))
  /\ loopIndex' = [loopIndex EXCEPT ![j] = @ + 1]
  /\ UNCHANGED <<mediaUploads, currentMediaId, detectionModels, pc, selectedModels,
                 updRead, isVideo, modelsToUse, httpStatus, statusHistory, now, updCalls, reqBody>>

\* Lines 85-203, one iteration: build the result of the next model, store it.
AnalyzeModel(j, random) ==
  /\ pc[j] = "loop"
  /\ loopIndex[j] <= Len(modelsToUse[j])
  /\ LET model == modelsToUse[j][loopIndex[j]]
     IN analysisResults' =
          createAnalysisResult(analysisResultOf(j, model, isVideo[j], random))
  /\ loopIndex' = [loopIndex EXCEPT ![j] = @ + 1]
  /\ UNCHANGED <<mediaUploads, currentMediaId, detectionModels, pc, selectedModels,
                 updRead, isVideo, modelsToUse, httpStatus,
                 statusHistory, now, updCalls, reqBody>>

\* Lines 85-203, one iteration that raises (the producer, or the awaited
\* createAnalysisResult, rejects): processMedia's promise is rejected.
ProducerThrows(j) ==
  /\ pc[j] = "loop"
  /\ loopIndex[j] <= Len(modelsToUse[j])
  /\ pc' = [pc EXCEPT ![j] = "rejected"]
  /\ UNCHANGED <<storeVars, localVars, httpStatus, statusHistory, now, updCalls, reqBody>>

\* LoopDone with the loop's bound off by one: the last model is skipped.
LoopDoneEarly(j) ==
  /\ pc[j] = "loop"
  /\ loopIndex[j] >= Len(modelsToUse[j])
  /\ updRead' = [updRead EXCEPT ![j] = getMediaUpload(j)]
  /\ pc' = [pc EXCEPT ![j] = "upd_completed"]
  /\ UNCHANGED <<storeVars, selectedModels, isVideo, modelsToUse, loopIndex,
                 httpStatus, statusHistory, now, updCalls, reqBody>>

\* LoopDone that treats an empty model set as an error.
LoopDoneEmptyThrows(j) ==
  /\ pc[j] = "loop"
  /\ loopIndex[j] > Len(modelsToUse[j])
  /\ IF modelsToUse[j] = <<>>
       THEN /\ pc' = [pc EXCEPT ![j] = "rejected"]
            /\ UNCHANGED updRead
       ELSE /\ pc' = [pc EXCEPT ![j] = "upd_completed"]
            /\ updRead' = [updRead EXCEPT ![j] = getMediaUpload(j)]
  /\ UNCHANGED <<storeVars, selectedModels, isVideo, modelsToUse, loopIndex,
                 httpStatus, statusHistory, now, updCalls, reqBody>>

\* Line 206 up to the await inside updateMediaStatus: the loop is over, the
\* job is read.
LoopDone(j) ==
  /\ pc[j] = "loop"
  /\ loopIndex[j] > Len(modelsToUse[j])
  /\ updRead' = [updRead EXCEPT ![j] = getMediaUpload(j)]
  /\ pc' = [pc EXCEPT ![j] = "upd_completed"]
  /\ UNCHANGED <<storeVars, selectedModels, isVideo, modelsToUse,
                 loopIndex, httpStatus, statusHistory, now, updCalls, reqBody>>

\* SetCompleted as a write that marks every processing job completed, as if
\* the jobs shared one status.
SetCompletedAll(j) ==
  /\ pc[j] = "upd_completed"
  /\ mediaUploads' =
       [k \in DOMAIN mediaUploads |->
          IF mediaUploads[k].status = "processing"
            THEN [mediaUploads[k] EXCEPT !.status = "completed"]
            ELSE mediaUploads[k]]
  /\ statusHistory' = logStatus(updRead[j], j, "completed")
  /\ pc' = [pc EXCEPT ![j] = "returned"]
  /\ UNCHANGED <<currentMediaId, detectionModels, analysisResults, localVars,
                 httpStatus, now, updCalls, reqBody>>

\* Line 206 after the await inside updateMediaStatus: the write of "completed".
SetCompleted(j) ==
  /\ pc[j] = "upd_completed"
  /\ mediaUploads' = updateMediaStatusWrite(updRead[j], j, "completed")
  /\ statusHistory' = logStatus(updRead[j], j, "completed")
  /\ pc' = [pc EXCEPT ![j] = "returned"]
  /\ UNCHANGED <<currentMediaId, detectionModels, analysisResults, localVars,
                 httpStatus, now, updCalls, reqBody>>

\* CatchHandler as a handler that marks the job failed and lets the loop go on
\* with the next model.
CatchHandlerResumes(j) ==
  /\ pc[j] = "rejected"
  /\ mediaUploads' = updateMediaStatusWrite(getMediaUpload(j), j, "failed")
  /\ pc' = [pc EXCEPT ![j] = "loop"]
  /\ UNCHANGED <<currentMediaId, detectionModels, analysisResults, localVars,
                 httpStatus, statusHistory, now, updCalls, reqBody>>

\* CatchHandler as a handler that only logs the error.
CatchHandlerLogsOnly(j) ==
  /\ pc[j] = "rejected"
  /\ pc' = [pc EXCEPT ![j] = "handled"]
  /\ UNCHANGED <<storeVars, localVars, httpStatus, statusHistory, now, updCalls, reqBody>>

\* processMedia(...).catch: the handler enters updateMediaStatus(id, "failed"),
\* which reads the job.
CatchHandler(j) ==
  /\ pc[j] = "rejected"
  /\ updRead' = [updRead EXCEPT ![j] = getMediaUpload(j)]
  /\ pc' = [pc EXCEPT ![j] = "upd_failed"]
  /\ UNCHANGED <<storeVars, selectedModels, isVideo, modelsToUse,
                 loopIndex, httpStatus, statusHistory, now, updCalls, reqBody>>

\* SetFailed as a handler that puts the job back in the queue instead.
SetFailedRequeue(j) ==
  /\ pc[j] = "upd_failed"
  /\ mediaUploads' = updateMediaStatusWrite(updRead[j], j, "pending")
  /\ statusHistory' = logStatus(updRead[j], j, "pending")
  /\ pc' = [pc EXCEPT ![j] = "handled"]
  /\ UNCHANGED <<currentMediaId, detectionModels, analysisResults, localVars,
                 httpStatus, now, updCalls, reqBody>>

\* The catch handler's updateMediaStatus after its await: the write of "failed".
SetFailed(j) ==
  /\ pc[j] = "upd_failed"
  /\ mediaUploads' = updateMediaStatusWrite(updRead[j], j, "failed")
  /\ statusHistory' = logStatus(updRead[j], j, "failed")
  /\ pc' = [pc EXCEPT ![j] = "handled"]
  /\ UNCHANGED <<currentMediaId, detectionModels, analysisResults, localVars,
                 httpStatus, now, updCalls, reqBody>>

\* ------------------------------------------------------------------ read routes
\* GET /api/analysis/:mediaId/status: the answer in the current state.
getStatusRoute(id) ==
  IF getMediaUpload(id) = Undefined
    THEN [code |-> 404, body |-> Undefined]
    ELSE [code |-> 200, body |-> [status |-> getMediaUpload(id).status]]

\* GET /api/analysis/:mediaId: the answer in the current state.
getAnalysisRoute(id) ==
  LET analysis == getCompleteAnalysis(id)
  IN IF analysis = Undefined
       THEN [code |-> 404, body |-> Undefined]
       ELSE [code |-> 200, body |-> analysis]

\* ------------------------------------------------------------------ Next
Next ==
  \/ \E model \in ExtraModels : CreateDetectionModel(model)
  \/ \E route \in {"upload", "url"}, filetype \in FileTypes : CreateJob(route, filetype)
  \/ \E j \in JobIds, payload \in Payloads : UploadDispatch(j, payload)
  \/ \E j \in JobIds, payload \in Payloads : UrlDispatch(j, payload)
  \/ \E j \in JobIds : UrlReject(j)
  \/ \E j \in JobIds : SetProcessing(j)
  \/ \E j \in JobIds : GetMedia(j)
  \/ \E j \in JobIds : TimerFires(j)
  \/ \E j \in JobIds, random \in RandomScores : AnalyzeModel(j, random)
  \/ \E j \in JobIds : ProducerThrows(j)
  \/ \E j \in JobIds : LoopDone(j)
  \/ \E j \in JobIds : SetCompleted(j)
  \/ \E j \in JobIds : CatchHandler(j)
  \/ \E j \in JobIds : SetFailed(j)

Spec == Init /\ [][Next]_vars

\* ------------------------------------------------------------------ time
\* A millisecond passes. No guard or effect of the pipeline reads the clock
\* except createAnalysisResult, which stamps analyzedAt with it.
Tick ==
  /\ now < MaxTime
  /\ now' = now + 1
  /\ UNCHANGED <<storeVars, pc, localVars, httpStatus, statusHistory, updCalls, reqBody>>

\* The requests of a client that sends files and URLs and leaves the choice of
\* models to the server, over the seeded registry.
TimedPayloads == [kind : {"absent"}, ids : {{}}]

TimedNext ==
  \/ \E route \in {"upload", "url"}, filetype \in FileTypes : CreateJob(route, filetype)
  \/ \E j \in JobIds, payload \in TimedPayloads : UploadDispatch(j, payload)
  \/ \E j \in JobIds, payload \in TimedPayloads : UrlDispatch(j, payload)
  \/ \E j \in JobIds : SetProcessing(j)
  \/ \E j \in JobIds : GetMedia(j)
  \/ \E j \in JobIds : TimerFires(j)
  \/ \E j \in JobIds, random \in RandomScores : AnalyzeModel(j, random)
  \/ \E j \in JobIds : ProducerThrows(j)
  \/ \E j \in JobIds : LoopDone(j)
  \/ \E j \in JobIds : SetCompleted(j)
  \/ \E j \in JobIds : CatchHandler(j)
  \/ \E j \in JobIds : SetFailed(j)
  \/ Tick

\* The pipeline with the clock running.
TimedSpec == Init /\ [][TimedNext]_vars

\* ------------------------------------------------------------------ the store alone
\* The IStorage operations called directly, with any arguments, one call at a
\* time: what the store itself does, whoever calls it. statusHistory follows the
\* pipeline's jobs only and is not kept here.
Statuses == {"pending", "processing", "completed", "failed"}
StoreScores == {55, 60, 61, 86, 92}
StoreResults ==
  { [mediaId |-> mediaId, modelId |-> modelId, confidenceScore |-> score,
     resultDetails |-> resultDetailsOf(defaultModels[modelId], FALSE)] :
      mediaId \in JobIds, modelId \in {1, 2}, score \in StoreScores }

StoreCreateMediaUpload(filetype) ==
  /\ currentMediaId <= MaxJobs
  /\ mediaUploads' = createMediaUpload(filetype)
  /\ currentMediaId' = currentMediaId + 1
  /\ UNCHANGED <<detectionModels, analysisResults, pc, localVars, httpStatus,
                 statusHistory, now, updCalls, reqBody>>

\* updateMediaStatus(id, status), its read and its write with no other call
\* in between.
StoreUpdateMediaStatus(id, status) ==
  /\ mediaUploads' = updateMediaStatusWrite(getMediaUpload(id), id, status)
  /\ UNCHANGED <<currentMediaId, detectionModels, analysisResults, pc, localVars,
                 httpStatus, statusHistory, now, updCalls, reqBody>>

StoreCreateAnalysisResult(result) ==
  /\ Len(analysisResults) < MaxStoreResults
  /\ analysisResults' = createAnalysisResult(result)
  /\ UNCHANGED <<mediaUploads, currentMediaId, detectionModels, pc, localVars,
                 httpStatus, statusHistory, now, updCalls, reqBody>>

StoreNext ==
  \/ StoreCreateMediaUpload("image/jpeg")
  \/ \E id \in RequestIds, status \in Statuses : StoreUpdateMediaStatus(id, status)
  \/ \E result \in StoreResults : StoreCreateAnalysisResult(result)

StoreSpec == Init /\ [][StoreNext]_vars

\* ------------------------------------------------------------------ direct calls
\* processMedia(id, models) called with any id, created or not, up to its first
\* await: updateMediaStatus is entered and reads the job (line 130).
CallProcessMedia(j, models) ==
  /\ pc[j] = "none"
  /\ selectedModels' = [selectedModels EXCEPT ![j] = models]
  /\ updRead' = [updRead EXCEPT ![j] = getMediaUpload(j)]
  /\ pc' = [pc EXCEPT ![j] = "upd_processing"]
  /\ UNCHANGED <<storeVars, isVideo, modelsToUse, loopIndex, httpStatus,
                 statusHistory, now, updCalls, reqBody>>

\* Model id lists passed to processMedia directly, and status values passed
\* to updateMediaStatus directly.
DirectIdSets == { {}, {1} }
DirectStatuses == {"pending", "failed"}

\* createMediaUpload, updateMediaStatus and processMedia called with any
\* arguments, and the continuations of the processMedia calls.
DirectNext ==
  \/ StoreCreateMediaUpload("image/jpeg")
  \/ \E id \in RequestIds, status \in DirectStatuses : StoreUpdateMediaStatus(id, status)
  \/ \E j \in JobIds, models \in DirectIdSets : CallProcessMedia(j, models)
  \/ \E j \in JobIds : SetProcessing(j)
  \/ \E j \in JobIds : GetMedia(j)
  \/ \E j \in JobIds : TimerFires(j)
  \/ \E j \in JobIds, random \in RandomScores : AnalyzeModel(j, random)
  \/ \E j \in JobIds : LoopDone(j)
  \/ \E j \in JobIds : SetCompleted(j)

DirectSpec == Init /\ [][DirectNext]_vars

\* ------------------------------------------------------------------ overlapping calls
\* updateMediaStatus(id, status) up to its await (line 130): the job is read.
UpdRead(c, id, status) ==
  /\ updCalls[c].at = "idle"
  /\ updCalls' = [updCalls EXCEPT ![c] =
                    [at |-> "await", id |-> id, status |-> status,
                     mediaUpload |-> getMediaUpload(id)]]
  /\ UNCHANGED <<storeVars, pc, localVars, httpStatus, statusHistory, now, reqBody>>

\* updateMediaStatus after its await (lines 131-135): return undefined, or
\* write { ...mediaUpload, status } built from the job as it was read.
UpdWrite(c) ==
  /\ updCalls[c].at = "await"
  /\ mediaUploads' =
       updateMediaStatusWrite(updCalls[c].mediaUpload, updCalls[c].id, updCalls[c].status)
  /\ updCalls' = [updCalls EXCEPT ![c].at = "done"]
  /\ UNCHANGED <<currentMediaId, detectionModels, analysisResults, pc, localVars,
                 httpStatus, statusHistory, now, reqBody>>

\* Callers whose updateMediaStatus calls may overlap, and createMediaUpload.
OverlapNext ==
  \/ StoreCreateMediaUpload("image/jpeg")
  \/ \E c \in Callers, id \in RequestIds, status \in Statuses : UpdRead(c, id, status)
  \/ \E c \in Callers : UpdWrite(c)

OverlapSpec == Init /\ [][OverlapNext]_vars

\* ------------------------------------------------------------------ restart
\* The host process stops and starts again: the module's `storage` is a new
\* MemStorage (empty maps, counters at 1, the seeded registry), and every
\* handler, continuation and timer of the old process is gone with it.
Restart ==
  /\ mediaUploads' = <<>>
  /\ currentMediaId' = 1
  /\ detectionModels' = defaultModels
  /\ analysisResults' = <<>>
  /\ pc' = [j \in JobIds |-> "none"]
  /\ selectedModels' = [j \in JobIds |-> {}]
  /\ updRead' = [j \in JobIds |-> Undefined]
  /\ isVideo' = [j \in JobIds |-> FALSE]
  /\ modelsToUse' = [j \in JobIds |-> <<>>]
  /\ loopIndex' = [j \in JobIds |-> 0]
  /\ httpStatus' = [j \in JobIds |-> 0]
  /\ statusHistory' = [j \in JobIds |-> <<>>]
  /\ reqBody' = [j \in JobIds |-> Undefined]
  /\ UNCHANGED <<now, updCalls>>

RestartNext == Next \/ Restart

\* The pipeline on a host that may restart at any moment.
RestartSpec == Init /\ [][RestartNext]_vars

\* The steps of job j that run without a new request: continuations of
\* awaited promises, the timer, and the catch handler.
ProcessStep(j) ==
  \/ SetProcessing(j)
  \/ GetMedia(j)
  \/ TimerFires(j)
  \/ \E random \in RandomScores : AnalyzeModel(j, random)
  \/ ProducerThrows(j)
  \/ LoopDone(j)
  \/ SetCompleted(j)
  \/ CatchHandler(j)
  \/ SetFailed(j)

\* The event loop runs every queued continuation and every due timer.
FairSpec == Spec /\ \A j \in JobIds : WF_vars(ProcessStep(j))

\* ------------------------------------------------------------------ helpers
RECURSIVE IsSubseq(_, _)
IsSubseq(s, t) ==
  IF s = <<>> THEN TRUE
  ELSE IF t = <<>> THEN FALSE
  ELSE IF Head(s) = Head(t) THEN IsSubseq(Tail(s), Tail(t))
  ELSE IsSubseq(s, Tail(t))

Created(j) == j \in DOMAIN mediaUploads
StatusOf(j) == mediaUploads[j].status
Terminal(j) == Created(j) /\ StatusOf(j) \in {"completed", "failed"}
\* processMedia has been called for job j.
Dispatched(j) == pc[j] \notin {"none", "upload", "url", "not_dispatched"}
\* processMedia's promise for job j has been rejected.
Errored(j) == pc[j] \in {"rejected", "upd_failed", "handled"}
\* modelsToUse of job j has been computed.
Selected(j) == loopIndex[j] >= 1
Range(s) == {s[i] : i \in DOMAIN s}
NumberOf(status, j) ==
  Cardinality({i \in DOMAIN statusHistory[j] : statusHistory[j][i] = status})

\* ------------------------------------------------------------------ claims
\* C1: the status values written to a job over time form a subsequence of
\* pending, processing, completed or of pending, processing, failed, and the
\* stored status is the last of them: no step goes back or leaves a terminal
\* status.
C1_StatusForwardOnly ==
  \A j \in JobIds :
    /\ Created(j) <=> statusHistory[j] # <<>>
    /\ Created(j) => StatusOf(j) = statusHistory[j][Len(statusHistory[j])]
    /\ \/ IsSubseq(statusHistory[j], <<"pending", "processing", "completed">>)
       \/ IsSubseq(statusHistory[j], <<"pending", "processing", "failed">>)

C1_Witness ==
  \E j, k \in JobIds :
    /\ statusHistory[j] = <<"pending", "processing", "completed">>
    /\ statusHistory[k] = <<"pending", "processing", "failed">>

\* C2: under fair scheduling of continuations and timers, every job for which
\* processMedia has been called eventually has status completed or failed,
\* also when an iteration of the loop throws.
C2_DispatchedReachesTerminal ==
  \A j \in JobIds : Dispatched(j) ~> Terminal(j)

C2_Witness ==
  \E j \in JobIds : pc[j] = "handled" /\ Terminal(j) /\ StatusOf(j) = "failed"

\* C3: a job that ends failed because an iteration of the loop threw has no
\* stored result.
C3_AllOrNothing ==
  \A j \in JobIds :
    (pc[j] = "handled" /\ StatusOf(j) = "failed")
      => Len(getAnalysisResultsByMediaId(j)) = 0

\* C4: once an iteration of job j's loop has thrown, no result is stored for j
\* any more, the catch handler sets the status to failed exactly once, and the
\* route's answer, chosen at dispatch, is still 201.
C4_ErrorStopsAndFails ==
  /\ [](\A j \in JobIds : Errored(j) => httpStatus[j] = 201)
  /\ [](\A j \in JobIds :
          /\ pc[j] \in {"rejected", "upd_failed"} => NumberOf("failed", j) = 0
          /\ pc[j] = "handled" => StatusOf(j) = "failed" /\ NumberOf("failed", j) = 1)
  /\ [][\A j \in JobIds :
          Errored(j) =>
            getAnalysisResultsByMediaId(j)' = getAnalysisResultsByMediaId(j)]_vars

C4_Witness ==
  \E j \in JobIds :
    /\ pc[j] = "handled"
    /\ loopIndex[j] = 2
    /\ Len(modelsToUse[j]) = 3
    /\ Len(getAnalysisResultsByMediaId(j)) = 1
    /\ Len(analysisResults) > 1

\* C5: a completed job has as many stored results, and its report as many
\* modelResults, as models were selected for it.
C5_CompletedHasAllResults ==
  \A j \in JobIds :
    (Created(j) /\ StatusOf(j) = "completed") =>
      /\ Len(getAnalysisResultsByMediaId(j)) = Len(modelsToUse[j])
      /\ getCompleteAnalysis(j) # Undefined =>
           Len(getCompleteAnalysis(j).modelResults) = Len(modelsToUse[j])

C5_Witness ==
  \E j \in JobIds :
    /\ Created(j) /\ StatusOf(j) = "completed"
    /\ Len(modelsToUse[j]) = 3
    /\ getCompleteAnalysis(j) # Undefined

\* The job's media kind as the claims word it.
MediaKind(j) == IF startsWithVideo(mediaUploads[j].filetype) THEN "video" ELSE "image"
SelectionStep(j) == pc[j] = "timer" /\ pc'[j] = "loop"

\* C6: with a non-empty explicit id list, the selected models are exactly the
\* registry models whose id is in the list and whose type is both or the job's
\* media kind, each once, whatever their isActive flag.
C6_ExplicitSelection ==
  [][\A j \in JobIds :
       (SelectionStep(j) /\ selectedModels[j] # {}) =>
         /\ Range(modelsToUse'[j]) =
              {m \in Range(detectionModels) :
                 m.id \in selectedModels[j] /\ m.type \in {"both", MediaKind(j)}}
         /\ Len(modelsToUse'[j]) = Cardinality(Range(modelsToUse'[j]))]_vars

C6_Witness ==
  \E j \in JobIds :
    /\ Selected(j)
    /\ selectedModels[j] = {1, 5}
    /\ \E i \in DOMAIN modelsToUse[j] :
         modelsToUse[j][i].id = 5 /\ ~modelsToUse[j][i].isActive

\* C7: with an empty explicit id list, the selected models are exactly the
\* registry models with isActive = true whose type is both or the job's media
\* kind, each once.
C7_DefaultSelection ==
  [][\A j \in JobIds :
       (SelectionStep(j) /\ selectedModels[j] = {}) =>
         /\ Range(modelsToUse'[j]) =
              {m \in Range(detectionModels) :
                 m.isActive /\ m.type \in {"both", MediaKind(j)}}
         /\ Len(modelsToUse'[j]) = Cardinality(Range(modelsToUse'[j]))]_vars

C7_Witness ==
  \E j \in JobIds :
    /\ Selected(j)
    /\ selectedModels[j] = {}
    /\ Len(detectionModels) = 5 /\ ~detectionModels[5].isActive
    /\ Len(modelsToUse[j]) = 2
    /\ pc[j] = "returned"

\* C8: a job whose selected model set is empty goes pending, processing,
\* completed, is never failed and never gets a stored result.
C8_EmptySelectionCompletes ==
  \A j \in JobIds :
    (Selected(j) /\ modelsToUse[j] = <<>>) =>
      /\ ~Errored(j)
      /\ StatusOf(j) # "failed"
      /\ Len(getAnalysisResultsByMediaId(j)) = 0
      /\ pc[j] \in {"loop", "upd_completed", "returned"}
      /\ pc[j] = "returned" =>
           statusHistory[j] = <<"pending", "processing", "completed">>

C8_Witness ==
  \E j \in JobIds :
    /\ Selected(j) /\ modelsToUse[j] = <<>>
    /\ pc[j] = "returned" /\ StatusOf(j) = "completed"
    /\ selectedModels[j] = {3}

\* C9 as stated: a job dispatched with the explicit selection [99] gets the
\* empty model set and completes with a report whose modelResults is empty.
C9_EmptyReport ==
  \A j \in JobIds :
    (selectedModels[j] = {99} /\ pc[j] = "returned") =>
      /\ modelsToUse[j] = <<>>
      /\ StatusOf(j) = "completed"
      /\ getAnalysisRoute(j).code = 200
      /\ getAnalysisRoute(j).body.modelResults = <<>>

\* C9 amended: a job dispatched with the explicit selection [99] gets the empty
\* model set and completes with no stored result; there is no report for it:
\* getCompleteAnalysis returns undefined and the route answers 404.
C9_NoReportForUnknownIds ==
  \A j \in JobIds :
    (selectedModels[j] = {99} /\ Selected(j)) =>
      /\ modelsToUse[j] = <<>>
      /\ pc[j] = "returned" =>
           /\ StatusOf(j) = "completed"
           /\ Len(getAnalysisResultsByMediaId(j)) = 0
           /\ getCompleteAnalysis(j) = Undefined
           /\ getAnalysisRoute(j).code = 404

C9_Witness ==
  \E j \in JobIds :
    /\ selectedModels[j] = {99} /\ pc[j] = "returned"
    /\ StatusOf(j) = "completed"
    /\ getAnalysisRoute(j).code = 404

\* C10: getCompleteAnalysis returns undefined, and the route answers 404,
\* exactly when the job does not exist or no stored result names it, whatever
\* the job's status; otherwise it returns a report and the route answers 200.
C10_NotFoundIffNoJobOrNoResults ==
  \A id \in RequestIds :
    LET missing == \/ id \notin DOMAIN mediaUploads
                   \/ ~\E i \in DOMAIN analysisResults : analysisResults[i].mediaId = id
    IN /\ getCompleteAnalysis(id) = Undefined <=> missing
       /\ getAnalysisRoute(id).code = (IF missing THEN 404 ELSE 200)
       /\ ~missing => getAnalysisRoute(id).body.mediaId = id

C10_Witness ==
  \E j, k \in JobIds :
    /\ Created(j) /\ StatusOf(j) = "completed" /\ getAnalysisRoute(j).code = 404
    /\ Created(k) /\ StatusOf(k) = "processing" /\ getAnalysisRoute(k).code = 200
    /\ getAnalysisRoute(MaxJobs + 1).code = 404

\* The confidenceScore values of the stored results that name job id.
ScoresOf(id) ==
  LET rs == getAnalysisResultsByMediaId(id) IN [i \in DOMAIN rs |-> rs[i].confidenceScore]
RECURSIVE Sum(_)
Sum(s) == IF s = <<>> THEN 0 ELSE Head(s) + Sum(Tail(s))

\* C11: for every job with at least one stored result, the report's
\* overallConfidence is the mean of the results' confidenceScore values rounded
\* to the nearest integer, halves up: floor((2 * sum + n) / (2 * n)) for n
\* results.
C11_OverallConfidenceIsRoundedMean ==
  \A id \in RequestIds :
    getCompleteAnalysis(id) # Undefined =>
      LET n == Len(ScoresOf(id))
      IN /\ n >= 1
         /\ getCompleteAnalysis(id).overallConfidence =
              (2 * Sum(ScoresOf(id)) + n) \div (2 * n)

\* The single score 55 gives 55, and 60 and 61, whose mean is 60.5, give 61.
C11_Witness ==
  \E j, k \in JobIds :
    /\ ScoresOf(j) = <<60, 61>> /\ getCompleteAnalysis(j) # Undefined
    /\ getCompleteAnalysis(j).overallConfidence = 61
    /\ ScoresOf(k) = <<55>> /\ getCompleteAnalysis(k) # Undefined
    /\ getCompleteAnalysis(k).overallConfidence = 55

\* C12: in every report isDeepfake is true exactly when overallConfidence is
\* strictly above 60.
C12_DeepfakeIffAbove60 ==
  \A id \in RequestIds :
    getCompleteAnalysis(id) # Undefined =>
      /\ getCompleteAnalysis(id).isDeepfake \in BOOLEAN
      /\ getCompleteAnalysis(id).isDeepfake
           <=> (2 * Sum(ScoresOf(id)) + Len(ScoresOf(id)))
                 \div (2 * Len(ScoresOf(id))) > 60

\* One report with overallConfidence 60 and isDeepfake false, one with 61 and
\* isDeepfake true.
C12_Witness ==
  \E j, k \in JobIds :
    /\ getCompleteAnalysis(j) # Undefined /\ getCompleteAnalysis(k) # Undefined
    /\ getCompleteAnalysis(j).overallConfidence = 60
    /\ ~getCompleteAnalysis(j).isDeepfake
    /\ getCompleteAnalysis(k).overallConfidence = 61
    /\ getCompleteAnalysis(k).isDeepfake

\* The (type, confidence) pairs that the stored results of job id carry as
\* manipulation candidates.
CandidatePairs(id) ==
  LET rs == getAnalysisResultsByMediaId(id)
  IN UNION { Range(rs[i].resultDetails.manipulationTypes) : i \in DOMAIN rs }

\* C13: in every report, manipulationTypes holds the manipulation candidates of
\* all of the job's results, sorted by confidence descending, each
\* (type, confidence) pair exactly once however many results carry it.
C13_ManipulationTypesPairsOnce ==
  \A id \in RequestIds :
    getCompleteAnalysis(id) # Undefined =>
      LET types == getCompleteAnalysis(id).manipulationTypes
      IN /\ Range(types) = CandidatePairs(id)
         /\ \A i, k \in DOMAIN types :
              i < k => types[i].confidence >= types[k].confidence
         /\ Len(types) = Cardinality(CandidatePairs(id))

\* The stored result of job id that comes first when the job's results are
\* ordered by analyzedAt ascending, then modelId ascending.
FirstByTimeAndModel(id) ==
  LET rs == Range(getAnalysisResultsByMediaId(id))
  IN CHOOSE r \in rs :
       \A q \in rs :
         \/ r.analyzedAt < q.analyzedAt
         \/ r.analyzedAt = q.analyzedAt /\ r.modelId <= q.modelId

\* C14: in every report, duration, resolution, technicalAnalysis and
\* detectionTime are those of one stored result of the job: the first one by
\* (analyzedAt ascending, modelId ascending), whatever other jobs stored in
\* between.
C14_OneResultFieldsFromFirst ==
  \A id \in RequestIds :
    getCompleteAnalysis(id) # Undefined =>
      LET report == getCompleteAnalysis(id)
          first == FirstByTimeAndModel(id)
      IN /\ report.detectionTime = first.analyzedAt
         /\ report.metadata.duration = first.resultDetails.metadata.duration
         /\ report.metadata.resolution = first.resultDetails.metadata.resolution
         /\ report.metadata.technicalAnalysis = first.resultDetails.technicalAnalysis

\* A job whose two results were stored at different times, with a result of
\* the other job stored between them.
C14_Witness ==
  \E j \in JobIds :
    LET rs == getAnalysisResultsByMediaId(j)
    IN /\ getCompleteAnalysis(j) # Undefined
       /\ Len(rs) >= 2
       /\ rs[1].analyzedAt < rs[2].analyzedAt
       /\ rs[1].id + 1 < rs[2].id
       /\ getCompleteAnalysis(j).detectionTime = rs[1].analyzedAt

Percent == 0..100

\* C16: every stored result's confidenceScore and every manipulation
\* candidate's confidence is an integer in 0..100, and so is the
\* overallConfidence of the report of every completed job.
C16_ScoresArePercentages ==
  /\ \A i \in DOMAIN analysisResults :
       /\ analysisResults[i].confidenceScore \in Percent
       /\ \A k \in DOMAIN analysisResults[i].resultDetails.manipulationTypes :
            analysisResults[i].resultDetails.manipulationTypes[k].confidence \in Percent
  /\ \A j \in JobIds :
       (Created(j) /\ StatusOf(j) = "completed" /\ getCompleteAnalysis(j) # Undefined)
         => getCompleteAnalysis(j).overallConfidence \in Percent

\* A completed job with a report whose results carry a fixed score and both
\* ends of the random score's range.
C16_Witness ==
  \E j, k \in JobIds :
    /\ Created(j) /\ StatusOf(j) = "completed" /\ getCompleteAnalysis(j) # Undefined
    /\ Created(k) /\ StatusOf(k) = "completed" /\ getCompleteAnalysis(k) # Undefined
    /\ Range(ScoresOf(j)) = {92, 94}
    /\ Range(ScoresOf(k)) = {92, 60}

\* C17: each stored result names an existing job, and a registry model whose
\* type is both or the media kind of that job.
C17_ResultsReferenceJobAndCompatibleModel ==
  \A i \in DOMAIN analysisResults :
    LET result == analysisResults[i]
    IN /\ result.mediaId \in DOMAIN mediaUploads
       /\ result.modelId \in DOMAIN detectionModels
       /\ detectionModels[result.modelId].id = result.modelId
       /\ detectionModels[result.modelId].type \in {"both", MediaKind(result.mediaId)}

\* Results of an image job by the image model and by the model added to the
\* registry, and of a video job by a video model.
C17_Witness ==
  \E i, k, l \in DOMAIN analysisResults :
    /\ analysisResults[i].modelId = 4
    /\ MediaKind(analysisResults[i].mediaId) = "image"
    /\ analysisResults[k].modelId = 5
    /\ analysisResults[l].modelId = 3
    /\ MediaKind(analysisResults[l].mediaId) = "video"

\* C18: there is at most one stored result per (job, model) pair, and a stored
\* result is never modified or removed: every step leaves the results stored
\* so far as they are.
C18_OneResultPerPairNeverChanged ==
  /\ [](\A i, k \in DOMAIN analysisResults :
          (/\ analysisResults[i].mediaId = analysisResults[k].mediaId
           /\ analysisResults[i].modelId = analysisResults[k].modelId) => i = k)
  /\ [][/\ Len(analysisResults') >= Len(analysisResults)
        /\ \A i \in DOMAIN analysisResults :
             analysisResults'[i] = analysisResults[i]]_vars

\* Two jobs with two stored results each, stored alternately.
C18_Witness ==
  /\ Len(analysisResults) >= 4
  /\ analysisResults[1].mediaId # analysisResults[2].mediaId
  /\ analysisResults[3].mediaId = analysisResults[1].mediaId
  /\ analysisResults[4].mediaId = analysisResults[2].mediaId

\* C19: createAnalysisResult stores a result only when no stored result has its
\* (mediaId, modelId) pair; a call for a pair that has one leaves the stored
\* results as they are.
C19_DuplicatePairRejected ==
  [][Len(analysisResults') > Len(analysisResults) =>
       ~\E i \in DOMAIN analysisResults :
          /\ analysisResults[i].mediaId = analysisResults'[Len(analysisResults')].mediaId
          /\ analysisResults[i].modelId = analysisResults'[Len(analysisResults')].modelId]_vars

\* The position of a status in pending < processing < {completed, failed}.
StatusRank(status) ==
  IF status = "pending" THEN 0 ELSE IF status = "processing" THEN 1 ELSE 2

\* C20: whatever status updateMediaStatus is called with, the stored status of
\* a job afterwards is not earlier in pending < processing < {completed,
\* failed} than before, and a terminal status is not replaced.
C20_StoreEnforcesForwardOnly ==
  [][\A id \in DOMAIN mediaUploads :
       /\ StatusRank(mediaUploads'[id].status) >= StatusRank(mediaUploads[id].status)
       /\ Terminal(id) => mediaUploads'[id].status = mediaUploads[id].status]_vars

\* C21: job ids are unique and strictly increasing in creation order: the
\* store holds exactly the ids 1 .. currentMediaId - 1, each job under its own
\* id, and a step that creates a job gives it an id above every existing one
\* and leaves the existing jobs' ids alone, whatever other jobs are doing.
C21_IdsUniqueIncreasing ==
  /\ [](/\ DOMAIN mediaUploads = 1..(currentMediaId - 1)
        /\ \A k \in DOMAIN mediaUploads : mediaUploads[k].id = k)
  /\ [][\A j \in JobIds :
          (pc[j] = "none" /\ pc'[j] # "none") =>
            /\ j \notin DOMAIN mediaUploads
            /\ j \in DOMAIN mediaUploads'
            /\ \A k \in DOMAIN mediaUploads : k < j /\ k \in DOMAIN mediaUploads']_vars

\* The second job is created while the first is being processed and has
\* stored a result.
C21_Witness ==
  /\ DOMAIN mediaUploads = {1, 2}
  /\ mediaUploads[1].id = 1 /\ mediaUploads[2].id = 2
  /\ pc[1] = "loop" /\ Len(getAnalysisResultsByMediaId(1)) >= 1
  /\ pc[2] \in {"upload", "url"}

\* C22: a created job has status pending, and GET .../status on its id answers
\* 200 with status pending, in every state before processMedia is called for
\* it (also when it never is).
C22_PendingUntilDispatched ==
  \A j \in JobIds :
    (Created(j) /\ ~Dispatched(j)) =>
      /\ StatusOf(j) = "pending"
      /\ getStatusRoute(j) = [code |-> 200, body |-> [status |-> "pending"]]

\* One job created and not yet dispatched while the other one is completed.
C22_Witness ==
  \E j, k \in JobIds :
    /\ Created(j) /\ pc[j] = "upload" /\ getStatusRoute(j).body.status = "pending"
    /\ Created(k) /\ StatusOf(k) = "completed"

\* C23: for an id that was never created, GET .../status answers 404,
\* getMediaUpload returns undefined, and updateMediaStatus and processMedia
\* return without touching the store: processMedia ends at its early return,
\* no step of it changes the store, and the only step that adds a job is
\* createMediaUpload, which stores it as pending under the next id.
C23_UnknownIdNotFoundNoChange ==
  /\ [](\A id \in RequestIds \ DOMAIN mediaUploads :
          /\ getStatusRoute(id).code = 404
          /\ getMediaUpload(id) = Undefined
          /\ Len(getAnalysisResultsByMediaId(id)) = 0
          /\ id \in JobIds =>
               pc[id] \in {"none", "upd_processing", "get_media", "returned"})
  /\ [][\A j \in JobIds :
          (j \notin DOMAIN mediaUploads /\ pc'[j] # pc[j]) =>
            UNCHANGED storeVars]_vars
  /\ [][(DOMAIN mediaUploads' # DOMAIN mediaUploads) =>
          /\ DOMAIN mediaUploads' = DOMAIN mediaUploads \cup {currentMediaId}
          /\ currentMediaId' = currentMediaId + 1
          /\ mediaUploads'[currentMediaId].status = "pending"]_vars

\* processMedia has returned for an id that does not exist, while the store
\* holds a job with results.
C23_Witness ==
  \E j \in JobIds :
    /\ j \notin DOMAIN mediaUploads
    /\ pc[j] = "returned"
    /\ getStatusRoute(j).code = 404
    /\ Len(analysisResults) >= 1

\* C24: overlapping updateMediaStatus calls on one job are serialized: each
\* call that read a job builds its write from the job as it is stored then
\* (no write in between its read and its write), and after two calls on the
\* same job the stored job is the job as created with the status of one of
\* the two calls.
C24_StatusWritesSerialized ==
  /\ [][\A c \in Callers :
          (/\ updCalls[c].at = "await" /\ updCalls'[c].at = "done"
           /\ updCalls[c].mediaUpload # Undefined) =>
            updCalls[c].mediaUpload = getMediaUpload(updCalls[c].id)]_vars
  /\ [](\A c, d \in Callers :
          (/\ c # d
           /\ updCalls[c].at = "done" /\ updCalls[d].at = "done"
           /\ updCalls[c].id = updCalls[d].id
           /\ updCalls[c].mediaUpload # Undefined
           /\ updCalls[d].mediaUpload # Undefined) =>
            \/ getMediaUpload(updCalls[c].id) =
                 [updCalls[c].mediaUpload EXCEPT !.status = updCalls[c].status]
            \/ getMediaUpload(updCalls[c].id) =
                 [updCalls[c].mediaUpload EXCEPT !.status = updCalls[d].status])

\* C25: a job that is processing when the host process restarts is not lost
\* by the restart: right after it the job is still known under its id, as
\* failed or as processing (to be failed by the recovery scan).
C25_RestartKeepsProcessingJobs ==
  [][\A j \in JobIds :
       (Restart /\ Created(j) /\ StatusOf(j) = "processing") =>
         /\ j \in DOMAIN mediaUploads'
         /\ mediaUploads'[j].status \in {"processing", "failed"}]_vars

\* The intake request of job j was an upload whose selectedModels field could
\* not be parsed into an array of ids (the only malformed request that the
\* routes answer with 201).
MalformedUpload(j) ==
  /\ reqBody[j] # Undefined
  /\ reqBody[j].kind = "malformed"
  /\ httpStatus[j] = 201

\* C26: for an upload with a malformed selectedModels field the job is
\* created and dispatched, and processMedia is given no explicit selection
\* (the client sent no valid id set), never some other id set.
C26_MalformedUploadSelectsNothingElse ==
  \A j \in JobIds :
    MalformedUpload(j) =>
      /\ Created(j)
      /\ Dispatched(j)
      /\ selectedModels[j] = {}

\* C27: for a job whose intake request (upload or URL) carried no
\* selectedModels, the models chosen to run are exactly the registry models
\* with isActive = true whose type is both or the job's media kind.
C27_NoSelectionRunsActiveOnly ==
  [][\A j \in JobIds :
       (SelectionStep(j) /\ reqBody[j] # Undefined /\ reqBody[j].kind = "absent") =>
         Range(modelsToUse'[j]) =
           {m \in Range(detectionModels) :
              m.isActive /\ m.type \in {"both", MediaKind(j)}}]_vars

\* A step taken by job j's request handler or processMedia call.
JobStep(j) == pc'[j] # pc[j] \/ loopIndex'[j] # loopIndex[j]

\* processMedia is over for job j, by return or by rejection and catch.
Finished(j) == Created(j) /\ pc[j] \in {"returned", "handled"}

\* C28: jobs are independent: no step of one job changes another job's stored
\* status or results, and a finished job's status and results are what its own
\* run determines: one result per model of its own selection up to where its
\* loop ended, in that order, each with that model's score, and status
\* completed if the loop ran through and failed if it threw.
C28_JobsIndependent ==
  /\ [][\A j, k \in JobIds :
          (j # k /\ JobStep(j) /\ Created(k)) =>
            /\ mediaUploads'[k] = mediaUploads[k]
            /\ getAnalysisResultsByMediaId(k)' = getAnalysisResultsByMediaId(k)]_vars
  /\ [](\A j \in JobIds :
          Finished(j) =>
            LET rs == getAnalysisResultsByMediaId(j)
            IN /\ Len(rs) = loopIndex[j] - 1
               /\ pc[j] = "returned" => Len(rs) = Len(modelsToUse[j])
               /\ \A i \in DOMAIN rs :
                    /\ rs[i].modelId = modelsToUse[j][i].id
                    /\ rs[i].confidenceScore \in
                         {confidenceScoreOf(modelsToUse[j][i], random) :
                            random \in RandomScores}
               /\ StatusOf(j) = (IF pc[j] = "returned" THEN "completed" ELSE "failed"))

\* Two finished jobs whose results were stored alternately, one completed and
\* one failed.
C28_Witness ==
  \E j, k \in JobIds :
    /\ Finished(j) /\ StatusOf(j) = "completed"
    /\ Finished(k) /\ StatusOf(k) = "failed"
    /\ Len(analysisResults) >= 3
    /\ analysisResults[1].mediaId # analysisResults[2].mediaId
    /\ analysisResults[3].mediaId = analysisResults[1].mediaId

\* C29 as stated: every report that getCompleteAnalysis returns is the report
\* of a job whose status is completed.
C29_ReportsOnlyForCompleted ==
  \A id \in RequestIds :
    getCompleteAnalysis(id) # Undefined =>
      /\ StatusOf(id) = "completed"
      /\ getCompleteAnalysis(id).status = "completed"

\* C29 amended: a report carries the job's stored status, which is processing,
\* completed or failed: getCompleteAnalysis returns a report as soon as the
\* job has one stored result, while its loop is still running and after it
\* failed, but never for a pending job.
C29_ReportsCarryStoredStatus ==
  \A id \in RequestIds :
    LET report == getCompleteAnalysis(id)
    IN report # Undefined =>
         /\ report.status = StatusOf(id)
         /\ report.status \in {"processing", "completed", "failed"}

\* One job reported while processing and one reported after it failed.
C29_Witness ==
  \E j, k \in JobIds :
    /\ getCompleteAnalysis(j) # Undefined
    /\ getCompleteAnalysis(j).status = "processing"
    /\ getCompleteAnalysis(k) # Undefined
    /\ getCompleteAnalysis(k).status = "failed"

\* C30: a job with status pending has no stored result, and once a job's
\* status is completed or failed no step changes the results stored for it.
C30_ResultsFollowLifecycle ==
  /\ [](\A j \in JobIds :
          (Created(j) /\ StatusOf(j) = "pending") =>
            Len(getAnalysisResultsByMediaId(j)) = 0)
  /\ [][\A j \in JobIds :
          Terminal(j) =>
            getAnalysisResultsByMediaId(j)' = getAnalysisResultsByMediaId(j)]_vars

\* A completed job and a failed job, each with stored results; the first
\* stored result is the completed job's and the last one the failed job's.
C30_Witness ==
  \E j, k \in JobIds :
    /\ Terminal(j) /\ StatusOf(j) = "completed"
    /\ Len(getAnalysisResultsByMediaId(j)) >= 2
    /\ Terminal(k) /\ StatusOf(k) = "failed"
    /\ Len(getAnalysisResultsByMediaId(k)) >= 1
    /\ analysisResults[Len(analysisResults)].mediaId = k
    /\ analysisResults[1].mediaId = j

====
